---- MODULE Spec2Model ----
(***************************************************************************)
(* State-machine model of the FASP Krylov cores KryPvfgmres.c (the three   *)
(* format-specific VFGMRES cores and the matrix-free one), KryPgcr.c (the  *)
(* CSR GCR core) and of the matrix-free dispatcher SolMatFree.c, with the   *)
(* initializer of the matrix-free handle.  Each routine a caller can enter *)
(* on its own has a specification of its own over the same variables.      *)
(*                                                                         *)
(* Vectors are abstracted to their norms.  Norms are fixed-point numbers   *)
(* on an integer grid 0..NormMax; every value produced by a mat-vec or by  *)
(* the preconditioner is an input drawn from that grid.  tol is the        *)
(* rational tol/TolDen.  Comparisons of quotients are cross-multiplied.    *)
(* An unsigned INT is represented by the signed integer with the same bit  *)
(* pattern (two's complement), so 1 - 3 is -2, standing for 2^32 - 2, and  *)
(* unsigned comparison is ULT below.                                       *)
(***************************************************************************)
EXTENDS Integers, Sequences, FiniteSets, TLC

----------------------------------------------------------------------------
(* Bounds of the model *)

\* largest iteration cap passed by a caller
MaxItMax == 3
\* largest iteration cap passed to the GCR core (its restart is capped by it)
GcrMaxItMax == 6
\* largest restart passed by a caller
RestartMax == 7
\* largest norm on the fixed-point grid
NormMax == 7
\* largest norm of the right-hand side
BNormMax == 1
\* denominator of tol: tol stands for tol/TolDen
TolDen == 2
\* largest value of the norms only the explicit re-test reads: ||x|| and
\* sqrt(<M^-1 r, r>)
AuxNormMax == 2
\* denominator of the Givens sine: |s| ranges over 0..SDen / SDen
SDen == 2
\* largest pointer value; 0 is NULL
PtrMax == 3
\* largest first dimension of a matrix written to a file
DimMax == 3
\* largest entry count in the size line of a MatrixMarket file
NnzMax == 4
\* largest number of entry lines a MatrixMarket file holds
EntMax == 4

----------------------------------------------------------------------------
(* Program constants *)

\* cap of the solution-update counter: one more than the passes any run
\* with restart >= 1 can make (with restart 0 the outer loop never ends)
XupdMax == (IF MaxItMax >= GcrMaxItMax THEN MaxItMax ELSE GcrMaxItMax) + 1

ERROR_INPUT_PAR == -13
ERROR_ALLOC_MEM == -20
ERROR_SOLVER_TYPE == -40
ERROR_SOLVER_MAXIT == -48
ERROR_DATA_STRUCTURE == -21
ERROR_OPEN_FILE == -10
ERROR_WRONG_FILE == -11

\* output levels of itsolver_param.print_level
PRINT_NONE == 0
PRINT_MIN == 1
PRINT_SOME == 2

\* solver kinds of itsolver_param.itsolver_type; "OTHER" is any other tag
SolverKinds ==
    {"CG", "BiCGstab", "VBiCGstab", "MinRes", "GMRES", "VGMRES", "VFGMRES",
     "GCR", "GCG", "OTHER"}

\* stopping types; "OTHER" is any value outside the three STOP_ constants
StopTypes == {"STOP_REL_RES", "STOP_REL_PRECRES", "STOP_MOD_REL_RES", "OTHER"}

\* the functions a caller can enter
Entries ==
    {"fasp_solver_itsolver", "fasp_solver_dcsr_pvfgmres",
     "fasp_solver_dbsr_pvfgmres", "fasp_solver_dblc_pvfgmres",
     "fasp_solver_pvfgmres", "fasp_solver_dcsr_pgcr"}

\* the VFGMRES cores with the stop_type switch in the explicit re-test
FormatCores ==
    {"fasp_solver_dcsr_pvfgmres", "fasp_solver_dbsr_pvfgmres",
     "fasp_solver_dblc_pvfgmres"}

VfCores == FormatCores \cup {"fasp_solver_pvfgmres"}

\* matrix format tags; "OTHER" is any value that is not a MAT_ constant
MatTags ==
    {"MAT_FREE", "MAT_CSR", "MAT_BSR", "MAT_STR", "MAT_BLC", "MAT_CSRL",
     "MAT_SymCSR", "OTHER"}

\* the mat-vec kernels of BlaSpmvMatFree.inl
MxvKernels ==
    {"fasp_blas_mxv_csr", "fasp_blas_mxv_bsr", "fasp_blas_mxv_str",
     "fasp_blas_mxv_blc", "fasp_blas_mxv_csrl"}

VARIABLES
    entry,          \* function the caller entered
    itsolver_type,  \* itparam->itsolver_type
    stop_type,      \* stopping type
    MaxIt,          \* iteration cap
    restart,        \* restart passed by the caller
    tol,            \* tolerance numerator (tol/TolDen)
    b_norm,         \* ||b||
    b_pnorm,        \* M^-1-norm of b, sqrt(<b, M^-1 b>)
    has_pc,         \* the caller passed a preconditioner (pc != NULL)
    pc,             \* position in the running function
    core,           \* Krylov core that is running or has run, "none" before
    calls,          \* sequence of cores invoked by the dispatcher
    iter,           \* iteration counter of the core
    i,              \* index inside the restart cycle
    Restart,        \* restart of the current cycle (unsigned in VFGMRES)
    Ralloc,         \* restart for which the workspace was allocated
    r_norm,         \* residual norm
    r_norm_old,     \* residual norm at the start of the cycle
    cr,             \* convergence rate <<numerator, denominator>>
    den_norm,       \* denominator of the relative residual
    absres,         \* GCR: squared residual norm (implicit or explicit)
    absres0,        \* GCR: MAX(SMALLREAL, initial absres); 0 stands for SMALLREAL
    checktol,       \* GCR: re-measure floor, numerator over CheckDen
    rst,            \* GCR: restart cycle counter
    explicit,       \* GCR: absres of the last step is an explicit <r,r>
    stopOK,         \* outcome of the last stopping test the core evaluated
    mem,            \* buffer id -> "live" | "freed" | "double"
    steps,          \* Arnoldi / GCR steps: mat-vec + preconditioner pairs
    xupd,           \* number of updates of x
    x,              \* x as a combination: coefficient of the initial guess
                    \* and of the correction of every update, in order
    breakdown,      \* a Krylov step met gamma = 0
    relres,         \* VFGMRES: the quotient the last explicit re-test
                    \* compared with tol, as <<numerator, denominator>>
    ops,            \* vector operations of the last VFGMRES pass, in order
    oob,            \* an access outside the allocated workspace happened
    ret,            \* value returned by the core, or the exit status
    iterD,          \* dispatcher local iter (its return value)
    print_level,    \* itparam->print_level
    summary,        \* timing lines the dispatcher has printed
    use_openmp,     \* the build defines FASP_USE_OPENMP
    flag,           \* fasp_matrix_write: the flag argument
    dim,            \* first dimension of the matrix written: A->row,
                    \* A->ROW or A->nx
    file,           \* the file: text or binary, the INT values of its
                    \* header, the record layout and first INT of its body
    handles,        \* fclose calls on each FILE handle opened, in order
    reader,         \* the format-specific reader a read routine called,
                    \* with the globals ilength and dlength it reads by
    matrix_format,  \* fasp_solver_matfree_init: the format tag
    A,              \* fasp_solver_matfree_init: the matrix pointer
    mf,             \* the mxv_matfree handle: fields fct and data
    innz,           \* fasp_dmtxsym_read*: index of nonzeros
    Atmp,           \* fasp_dmtxsym_read*: the COO matrix, its length nnz
                    \* and the indexes of rowind/colind/val stored to
    fpos            \* entries of the file the reader has consumed

\* state of fasp_solver_matfree_init
mfv == <<matrix_format, A, mf>>
\* state of the file routines
iov == <<flag, dim, file, handles, reader>>
\* state of the MatrixMarket symmetric readers
symv == <<innz, Atmp, fpos>>
\* what the Krylov solvers and their dispatcher only read or never touch
params ==
    <<entry, itsolver_type, stop_type, MaxIt, restart, tol, b_norm, b_pnorm,
      has_pc, print_level, use_openmp, mfv, iov, symv>>
gcrv == <<absres, absres0, checktol, rst, explicit>>
vfv == <<r_norm, r_norm_old, cr, den_norm, relres, ops>>
solv == <<xupd, x>>
vars ==
    <<entry, itsolver_type, stop_type, MaxIt, restart, tol, b_norm, pc, core,
      calls, iter, i, Restart, Ralloc, r_norm, r_norm_old, cr, den_norm,
      absres, absres0, checktol, rst, explicit, stopOK, mem, steps, xupd,
      oob, ret, iterD, b_pnorm, has_pc, x, breakdown, relres, ops, mfv,
      print_level, summary, use_openmp, iov, symv>>

----------------------------------------------------------------------------
(* Arithmetic helpers *)

\* a floating-point NaN: every comparison with it is false
NaN == -1

\* unsigned comparison a < b of two 32-bit patterns held as signed integers
ULT(a, b) == IF (a < 0) = (b < 0) THEN a < b ELSE b < 0

\* r <= epsilon, epsilon = tol*den_norm
LeEpsilon(r, den) == r # NaN /\ r * TolDen <= tol * den

\* r < epsilon
LtEpsilon(r, den) == r # NaN /\ r * TolDen < tol * den

\* r < 1e-3*tol
LtMilliTol(r) == r * 1000 * TolDen < tol

\* cr > cr_max = 0.99
CrAboveMax(c) == c[1] # NaN /\ c[2] # NaN /\ c[1] * 100 > 99 * c[2]

\* cr < cr_min = 0.174
CrBelowMin(c) == c[1] # NaN /\ c[2] # NaN /\ c[1] * 1000 < 174 * c[2]

\* faulty variant: the rotation adds to the residual norm
AbsRs_Grows(s, rs) == IF rs = NaN THEN NaN ELSE rs + s

\* fabs(rs[i]) = |s[i-1]| * |rs[i-1]| on the grid, with |s[i-1]| = s/SDen
\* (s[i-1] = hh[i][i-1]/gamma and gamma >= |hh[i][i-1]|)
AbsRs(s, rs) == IF rs = NaN THEN NaN ELSE (s * rs) \div SDen

\* the values a norm computed from the current vectors can take: NaN once
\* a breakdown has put NaN into x
NormValues == IF breakdown THEN {NaN} ELSE 0..NormMax

\* the same for ||x|| and sqrt(<M^-1 r, r>)
AuxNormValues == IF breakdown THEN {NaN} ELSE 0..AuxNormMax

----------------------------------------------------------------------------
(* The solution vector *)

\* x on entry: the caller's initial guess, no correction yet
XInit == [x0 |-> 1, dz |-> <<>>]

\* x after a NaN has been added to it
XNaN == [x0 |-> NaN, dz |-> <<>>]

\* fasp_blas_array_axpby: y = a*d + b*y for a new correction d
fasp_blas_array_axpby(a, b, y) ==
    [x0 |-> b * y.x0,
     dz |-> Append([k \in 1..Len(y.dz) |-> b * y.dz[k]], a)]

\* fasp_blas_array_axpy: y = a*d + y
fasp_blas_array_axpy(a, y) == fasp_blas_array_axpby(a, 1, y)

\* dense_aAtxpby: y = alpha*(z*tmpx) + beta*y
dense_aAtxpby(alpha, beta, y) == fasp_blas_array_axpby(alpha, beta, y)

----------------------------------------------------------------------------
(* Memory *)

\* fasp_mem_calloc returned a block for id
Calloc(m, id) == m @@ (id :> "live")

\* fasp_mem_free(ptr): a NULL pointer (id never allocated) is left alone
Free(m, id) ==
    IF id \in DOMAIN m
    THEN [m EXCEPT ![id] = IF @ = "live" THEN "freed" ELSE "double"]
    ELSE m

RECURSIVE FreeAll(_, _)
FreeAll(m, ids) ==
    IF ids = <<>> THEN m ELSE FreeAll(Free(m, Head(ids)), Tail(ids))

\* faulty variant: the release of z is forgotten
VfBuffers_NoZ == <<"work", "p", "hh", "norms">>

\* the buffers released at FINISHED and at the zero-residual exit
VfBuffers == <<"work", "p", "hh", "norms", "z">>

----------------------------------------------------------------------------
(* Initial states: a caller enters one of the functions *)

\* no handle is being initialized
MatfreeIdle ==
    /\ matrix_format = "MAT_FREE"
    /\ A = 0
    /\ mf = [fct |-> "none", data |-> 0]

\* a file nothing has been written to
NoFile == [text |-> TRUE, head |-> <<>>, body |-> <<>>, first |-> 0]

\* no reader has been called
NoReader == [fn |-> "none", ilength |-> 0, dlength |-> 0]

\* no file routine is running
IoIdle ==
    /\ flag = 0 /\ dim = 0
    /\ file = NoFile
    /\ handles = <<>>
    /\ reader = NoReader

\* no MatrixMarket reader is running
NoCoo == [nnz |-> 0, stored |-> {}]
SymIdle ==
    /\ innz = 0
    /\ Atmp = NoCoo
    /\ fpos = 0

Init ==
    /\ entry \in Entries
    /\ itsolver_type \in
         IF entry = "fasp_solver_itsolver" THEN SolverKinds
         ELSE IF entry = "fasp_solver_dcsr_pgcr" THEN {"GCR"} ELSE {"VFGMRES"}
    /\ stop_type \in StopTypes
    /\ MaxIt \in IF entry = "fasp_solver_itsolver" THEN -1..MaxItMax
                 ELSE IF entry = "fasp_solver_dcsr_pgcr" THEN 0..GcrMaxItMax
                 ELSE 0..MaxItMax
    /\ restart \in 0..RestartMax
    /\ tol \in IF entry = "fasp_solver_itsolver" THEN -1..1 ELSE {1}
    /\ b_norm \in 0..BNormMax
    /\ has_pc \in IF entry \in VfCores THEN BOOLEAN ELSE {TRUE}
    /\ b_pnorm \in IF b_norm > 0 /\ has_pc /\ entry \in FormatCores
                       /\ stop_type = "STOP_REL_PRECRES"
                    THEN 1..(BNormMax + 1) ELSE {b_norm}
    /\ pc = IF entry = "fasp_solver_itsolver" THEN "its_enter"
            ELSE IF entry = "fasp_solver_dcsr_pgcr" THEN "gcr_alloc"
            ELSE "vf_alloc"
    /\ core = IF entry = "fasp_solver_itsolver" THEN "none" ELSE entry
    /\ calls = <<>>
    /\ iter = 0 /\ i = 0 /\ Restart = 0 /\ Ralloc = 0
    /\ r_norm = 0 /\ r_norm_old = 0 /\ cr = <<1, 1>> /\ den_norm = 0
    /\ absres = 0 /\ absres0 = 0 /\ checktol = 0 /\ rst = -1
    /\ explicit = TRUE
    /\ stopOK = FALSE
    /\ mem = <<>>
    /\ steps = 0 /\ xupd = 0 /\ oob = FALSE
    /\ x = XInit /\ breakdown = FALSE
    /\ relres = <<0, 1>> /\ ops = <<>>
    /\ ret = 0 /\ iterD = ERROR_SOLVER_TYPE
    /\ print_level \in IF entry = "fasp_solver_itsolver"
                       THEN {PRINT_NONE, PRINT_MIN, PRINT_SOME}
                       ELSE {PRINT_NONE}
    /\ summary = 0
    /\ use_openmp = FALSE
    /\ MatfreeIdle
    /\ IoIdle
    /\ SymIdle

\* position after a core returns: back in the dispatcher, or at the caller
AfterCore == IF entry = "fasp_solver_itsolver" THEN "its_ret" ELSE "done"

----------------------------------------------------------------------------
(* VFGMRES cores: KryPvfgmres.c *)

\* faulty variant: a slow rate resets the restart instead of keeping it
AdjustRestart_SlowResets(R, c, it, restart_max) ==
    IF CrAboveMax(c) \/ it = 0 THEN restart_max
    ELSE IF CrBelowMin(c) THEN restart_max
    ELSE IF ULT(3, R - 3) THEN R - 3
    ELSE restart_max

\* the restart-adjustment block at the head of every restart cycle
AdjustRestart(R, c, it, restart_max) ==
    IF CrAboveMax(c) \/ it = 0 THEN restart_max
    ELSE IF CrBelowMin(c) THEN R
    ELSE IF ULT(3, R - 3) THEN R - 3
    ELSE restart_max

\* first allocation of work with Restart = restart
VfAllocWork ==
    /\ pc = "vf_alloc"
    /\ iter' = 0 /\ cr' = <<1, 1>> /\ r_norm_old' = 0
    /\ Restart' = restart
    /\ \E ok \in BOOLEAN :
         IF ok THEN /\ mem' = Calloc(mem, "work")
                    /\ pc' = "vf_setup"
         ELSE /\ mem' = mem
              /\ pc' = "vf_retry"
    /\ UNCHANGED <<params, core, calls, summary, i, Ralloc, r_norm, den_norm, gcrv,
                   stopOK, steps, solv, oob, ret, iterD, breakdown, relres,
                   ops>>

\* one pass of while ( (work == NULL) && (Restart > 5) )
VfAllocRetry ==
    /\ pc = "vf_retry"
    /\ ULT(5, Restart)
    /\ Restart' = Restart - 5
    /\ \E ok \in BOOLEAN :
         IF ok THEN /\ mem' = Calloc(mem, "work")
                    /\ pc' = "vf_setup"
         ELSE /\ mem' = mem
              /\ pc' = "vf_retry"
    /\ UNCHANGED <<params, core, calls, summary, iter, i, Ralloc, vfv, gcrv, stopOK,
                   steps, solv, oob, ret, iterD, breakdown>>

\* if ( work == NULL ) exit(ERROR_ALLOC_MEM)
VfAllocExit ==
    /\ pc = "vf_retry"
    /\ ~ULT(5, Restart)
    /\ pc' = "exited"
    /\ ret' = ERROR_ALLOC_MEM
    /\ UNCHANGED <<params, core, calls, summary, iter, i, Restart, Ralloc, vfv, gcrv,
                   stopOK, mem, steps, solv, oob, iterD, breakdown>>

\* what the set-up leaves behind for the initial residual norm r0; fmt is
\* TRUE for the code of the format-specific cores and FALSE for the
\* matrix-free code, which has no small-residual shortcut
VfSetupOutcome(fmt, r0) ==
    LET den == IF b_norm > 0 THEN b_norm ELSE r0
        small == fmt /\ (LtEpsilon(r0, den) \/ LtMilliTol(r0))
    IN [r_norm |-> r0,
        den_norm |-> den,
        pc |-> IF small THEN "vf_finish" ELSE "vf_outer",
        stopOK |-> small,
        ops |-> << <<"mxv", "x", 0, "p", 0>> >>]

\* p, hh, z, norms (allocations the code does not check; they succeed here),
\* the initial residual and the small-residual shortcut
VfSetup ==
    /\ pc = "vf_setup"
    /\ Ralloc' = Restart
    /\ mem' = Calloc(Calloc(Calloc(Calloc(mem, "p"), "hh"), "z"), "norms")
    /\ \E r0 \in 0..NormMax :
       \E n \in {VfSetupOutcome(core \in FormatCores, r0)} :
         /\ r_norm' = n.r_norm
         /\ den_norm' = n.den_norm
         /\ pc' = n.pc
         /\ stopOK' = n.stopOK
         /\ ops' = n.ops
    /\ UNCHANGED <<params, core, calls, summary, iter, i, Restart, r_norm_old, cr,
                   gcrv, steps, solv, oob, ret, iterD, breakdown, relres>>

\* the matrix-free code recomputes the residual at the loop head
PreChecks(fmt) == ~fmt /\ LeEpsilon(r_norm, den_norm)

\* what one pass of the loop head leaves behind; re is the norm of the
\* residual the matrix-free code recomputes when r_norm <= epsilon
VfOuterOutcome(fmt, re) ==
    IF ~(iter < MaxIt)
    THEN [pc |-> "vf_finish", i |-> i, Restart |-> Restart, r_norm |-> r_norm,
          r_norm_old |-> r_norm_old, stopOK |-> stopOK, mem |-> mem,
          ret |-> ret, ops |-> <<>>]
    ELSE IF r_norm = 0
    THEN [pc |-> AfterCore, i |-> i, Restart |-> Restart, r_norm |-> r_norm,
          r_norm_old |-> r_norm, stopOK |-> TRUE,
          mem |-> FreeAll(mem, VfBuffers), ret |-> iter, ops |-> <<>>]
    ELSE IF PreChecks(fmt)
    THEN [pc |-> IF LeEpsilon(re, den_norm) THEN "vf_finish" ELSE "vf_inner",
          i |-> IF LeEpsilon(re, den_norm) THEN i ELSE 0,
          Restart |-> AdjustRestart(Restart, cr, iter, restart),
          r_norm |-> re, r_norm_old |-> r_norm,
          stopOK |-> LeEpsilon(re, den_norm), mem |-> mem, ret |-> ret,
          ops |-> << <<"mxv", "x", 0, "r", 0>> >>]
    ELSE [pc |-> "vf_inner", i |-> 0,
          Restart |-> AdjustRestart(Restart, cr, iter, restart),
          r_norm |-> r_norm, r_norm_old |-> r_norm, stopOK |-> stopOK,
          mem |-> mem, ret |-> ret, ops |-> <<>>]

\* head of the outer loop down to the start of the restart cycle; relres
\* is not read again before the next re-test assigns it and is forgotten
\* here, and the log of operations starts anew
VfOuter ==
    /\ pc = "vf_outer"
    /\ relres' = <<0, 1>>
    /\ \E re \in IF PreChecks(core \in FormatCores) /\ iter < MaxIt /\ r_norm # 0
                 THEN NormValues ELSE {0} :
       \E n \in {VfOuterOutcome(core \in FormatCores, re)} :
         /\ pc' = n.pc
         /\ i' = n.i
         /\ Restart' = n.Restart
         /\ r_norm' = n.r_norm
         /\ r_norm_old' = n.r_norm_old
         /\ stopOK' = n.stopOK
         /\ mem' = n.mem
         /\ ret' = n.ret
         /\ ops' = n.ops
    /\ UNCHANGED <<params, core, calls, summary, iter, Ralloc, cr, den_norm, gcrv,
                   steps, solv, oob, iterD, breakdown>>

\* faulty variant: the cycle is not cut at the iteration cap
VfInnerGuard_NoCap(ii, R, it, maxit) == ULT(ii, R)

\* the condition of the restart cycle: i < Restart && iter < MaxIt
VfInnerGuard(ii, R, it, maxit) == ULT(ii, R) /\ it < maxit

\* the routine that fills z[i-1]: the preconditioner, or a copy of p[i-1]
PrecOp == IF has_pc THEN "pc->fct" ELSE "fasp_array_cp"

\* faulty variant: the mat-vec runs before the preconditioner
InnerOps_MxvFirst(k) ==
    << <<"mxv", "z", k - 1, "p", k>>, <<PrecOp, "p", k - 1, "z", k - 1>> >>

\* the operations <<routine, source, index, destination, index>> of inner
\* iteration k (k is i after i ++) on the vectors p[] and z[]
InnerOps(k) ==
    << <<PrecOp, "p", k - 1, "z", k - 1>>, <<"mxv", "z", k - 1, "p", k>> >>

\* one pass of the restart cycle: while ( i < Restart && iter < MaxIt );
\* bd: both Hessenberg entries of the new column are zero, gamma is replaced
\* by epsmac and s = 0 / epsmac
VfInner ==
    /\ pc = "vf_inner"
    /\ IF ~VfInnerGuard(i, Restart, iter, MaxIt)
       THEN /\ pc' = "vf_update"
            /\ UNCHANGED <<i, iter, r_norm, steps, oob, breakdown, ops>>
       ELSE /\ i' = i + 1
            /\ iter' = iter + 1
            /\ steps' = steps + 1
            /\ oob' = (oob \/ i + 1 > Ralloc)
            /\ ops' = InnerOps(i + 1)
            /\ \E bd \in IF r_norm = NaN THEN {FALSE} ELSE BOOLEAN,
                  fault \in IF i + 1 > Ralloc THEN BOOLEAN ELSE {FALSE} :
               \E s \in IF bd \/ r_norm = NaN THEN {0} ELSE 0..SDen :
                 /\ breakdown' = (breakdown \/ bd)
                 /\ r_norm' = AbsRs(s, r_norm)
                 /\ IF i + 1 > Ralloc /\ fault
                    THEN pc' = "crashed"
                    ELSE IF LeEpsilon(r_norm', den_norm)
                         THEN pc' = "vf_update"
                         ELSE pc' = "vf_inner"
    /\ UNCHANGED <<params, core, calls, summary, Restart, Ralloc, r_norm_old, cr,
                   den_norm, gcrv, stopOK, mem, solv, ret, iterD, relres>>

\* relres of the explicit re-test, as <<numerator, denominator>>;
\* a denominator 0 stands for SMALLREAL below the grid
ExplicitRelres(st, re, rb, xn) ==
    CASE st = "STOP_REL_RES" -> <<re, den_norm>>
      [] st = "STOP_REL_PRECRES" -> <<rb, den_norm>>
      [] st = "STOP_MOD_REL_RES" -> <<re, xn>>

\* relres <= tol for the pair above
RetestPasses(q) ==
    /\ q[1] # NaN
    /\ q[2] # NaN
    /\ IF q[2] = 0 THEN q[1] = 0 ELSE q[1] * TolDen <= tol * q[2]

\* the re-test is about to compute sqrt(<M^-1 r, r>)
NeedsPrecNorm(fmt) ==
    /\ fmt
    /\ stop_type = "STOP_REL_PRECRES"
    /\ LeEpsilon(r_norm, den_norm)

\* the re-test is about to compute ||x||
NeedsSolNorm(fmt) ==
    /\ fmt
    /\ stop_type = "STOP_MOD_REL_RES"
    /\ LeEpsilon(r_norm, den_norm)

\* the operations of the tail of an outer pass after k inner iterations:
\* r = sum of rs[j]*z[j], x += r, and the vectors of the explicit re-test
UpdateOps(k, retest, fmt) ==
    << <<"fasp_array_cp", "z", k - 1, "r", 0>> >>
    \o [j \in 1..(k - 1) |-> <<"fasp_blas_array_axpy", "z", k - 1 - j, "r", 0>>]
    \o << <<"fasp_blas_array_axpy", "r", 0, "x", 0>> >>
    \o (IF retest THEN << <<"mxv", "x", 0, "r", 0>> >> ELSE <<>>)
    \o (IF retest /\ fmt /\ stop_type = "STOP_REL_PRECRES"
        THEN << <<PrecOp, "r", 0, "p", 0>> >> ELSE <<>>)

\* what the tail of an outer pass leaves behind; fault: the access outside
\* the workspace faults; re: norm of the recomputed residual; rb:
\* sqrt(<M^-1 r, r>); xn: ||x||
VfUpdateOutcome(fmt, fault, re, rb, xn) ==
    LET retest == LeEpsilon(r_norm, den_norm)
        same == [pc |-> "vf_outer", i |-> i, r_norm |-> r_norm, cr |-> cr,
                 stopOK |-> stopOK, relres |-> relres,
                 ops |-> UpdateOps(i, retest, fmt)]
        again == [same EXCEPT !.i = 0, !.r_norm = re,
                              !.cr = <<re, r_norm_old>>, !.stopOK = FALSE]
        leave == [same EXCEPT !.pc = "vf_finish", !.r_norm = re,
                              !.stopOK = TRUE]
    IN IF (i = 0 \/ i > Ralloc) /\ fault
       THEN [same EXCEPT !.pc = "crashed"]
       ELSE IF ~retest
       THEN [same EXCEPT !.cr = <<r_norm, r_norm_old>>]
       ELSE IF ~fmt
       THEN IF LeEpsilon(re, den_norm) THEN leave ELSE again
       ELSE IF stop_type = "OTHER"
       THEN [same EXCEPT !.pc = "vf_finish", !.r_norm = re]
       ELSE IF RetestPasses(ExplicitRelres(stop_type, re, rb, xn))
       THEN [leave EXCEPT !.relres = ExplicitRelres(stop_type, re, rb, xn)]
       ELSE [again EXCEPT !.relres = ExplicitRelres(stop_type, re, rb, xn)]

\* the tail of an outer pass: solution update, explicit re-test, residual
\* vector of the next cycle and the convergence rate
VfUpdate ==
    /\ pc = "vf_update"
    /\ xupd < XupdMax
    /\ xupd' = xupd + 1
    /\ x' = IF breakdown THEN XNaN ELSE fasp_blas_array_axpy(1, x)
    /\ oob' = (oob \/ i = 0 \/ i > Ralloc)
    /\ \E fault \in IF i = 0 \/ i > Ralloc THEN BOOLEAN ELSE {FALSE},
          re \in IF LeEpsilon(r_norm, den_norm) THEN NormValues ELSE {0},
          rb \in IF NeedsPrecNorm(core \in FormatCores) THEN AuxNormValues ELSE {0},
          xn \in IF NeedsSolNorm(core \in FormatCores) THEN AuxNormValues ELSE {0} :
       \E n \in {VfUpdateOutcome(core \in FormatCores, fault, re, rb, xn)} :
         /\ pc' = n.pc
         /\ i' = n.i
         /\ r_norm' = n.r_norm
         /\ cr' = n.cr
         /\ stopOK' = n.stopOK
         /\ relres' = n.relres
         /\ ops' = n.ops
    /\ UNCHANGED <<params, core, calls, summary, iter, Restart, Ralloc, r_norm_old,
                   den_norm, gcrv, mem, steps, ret, iterD, breakdown>>

\* value returned after the FINISHED label
FinalReturn(it, maxit) == IF it >= maxit THEN ERROR_SOLVER_MAXIT ELSE it

\* FINISHED: free the workspace and return; the local relres ends here
VfFinish ==
    /\ pc = "vf_finish"
    /\ relres' = <<0, 1>>
    /\ ops' = <<>>
    /\ mem' = FreeAll(mem, VfBuffers)
    /\ ret' = FinalReturn(iter, MaxIt)
    /\ pc' = AfterCore
    /\ UNCHANGED <<params, core, calls, summary, iter, i, Restart, Ralloc, r_norm,
                   r_norm_old, cr, den_norm, gcrv, stopOK, steps, solv, oob,
                   iterD, breakdown>>

----------------------------------------------------------------------------
(* GCR core: KryPgcr.c *)

\* denominator of checktol: checktol stands for checktol/CheckDen
CheckDen == TolDen * TolDen * 10000

Max2(a, b) == IF a >= b THEN a ELSE b

\* MAX(SMALLREAL, absres); 0 stands for SMALLREAL, which is below the grid
MaxSmallReal(a) == Max2(0, a)

\* MAX(tol*tol*absres0, absres*1.0e-4) as a numerator over CheckDen; with
\* tol > 0 the value is positive, so a numerator 0 is a positive value
\* below the grid
CheckTol(a0, a) == Max2(tol * tol * a0 * 10000, a * TolDen * TolDen)

\* faulty variant: the re-measure is never forced
BelowCheckTol_Never(a, ct) == FALSE

\* absres < checktol
BelowCheckTol(a, ct) == IF ct = 0 THEN a <= 0 ELSE a * CheckDen < ct

\* sqrt(relres) > tol with relres = absres/absres0
SqrtRelresGtTol(a, a0) ==
    IF a < 0 THEN FALSE
    ELSE IF tol < 0 THEN TRUE
    ELSE IF a0 = 0 THEN a > 0
    ELSE a * TolDen * TolDen > tol * tol * a0

\* sqrt(relres) < tol
SqrtRelresLtTol(a, a0) ==
    IF a < 0 \/ tol <= 0 THEN FALSE
    ELSE IF a0 = 0 THEN a = 0
    ELSE a * TolDen * TolDen < tol * tol * a0

MinInt(a, b) == IF a <= b THEN a ELSE b

\* id of the row h[k]
HRow(k) == "h[" \o ToString(k) \o "]"

RECURSIVE CallocRows(_, _)
CallocRows(m, n) == IF n <= 0 THEN m ELSE CallocRows(Calloc(m, HRow(n - 1)), n - 1)

RECURSIVE FreeRows(_, _)
FreeRows(m, n) == IF n <= 0 THEN m ELSE FreeRows(Free(m, HRow(n - 1)), n - 1)

\* first allocation of work with Restart = MIN(restart, MaxIt)
GcrAllocWork ==
    /\ pc = "gcr_alloc"
    /\ iter' = 0 /\ rst' = -1
    /\ Restart' = MinInt(restart, MaxIt)
    /\ \E ok \in BOOLEAN :
         IF ok THEN /\ mem' = Calloc(mem, "work")
                    /\ pc' = "gcr_setup"
         ELSE /\ mem' = mem
              /\ pc' = "gcr_retry"
    /\ UNCHANGED <<params, core, calls, summary, i, Ralloc, vfv, absres, absres0,
                   checktol, explicit, stopOK, steps, solv, oob, ret, iterD,
                   breakdown>>

\* one pass of while ( (work == NULL) && (Restart > 5) )
GcrAllocRetry ==
    /\ pc = "gcr_retry"
    /\ Restart > 5
    /\ Restart' = Restart - 5
    /\ \E ok \in BOOLEAN :
         IF ok THEN /\ mem' = Calloc(mem, "work")
                    /\ pc' = "gcr_setup"
         ELSE /\ mem' = mem
              /\ pc' = "gcr_retry"
    /\ UNCHANGED <<params, core, calls, summary, iter, i, Ralloc, vfv, gcrv, stopOK,
                   steps, solv, oob, ret, iterD, breakdown>>

\* if ( work == NULL ) exit(ERROR_ALLOC_MEM)
GcrAllocExit ==
    /\ pc = "gcr_retry"
    /\ ~(Restart > 5)
    /\ pc' = "exited"
    /\ ret' = ERROR_ALLOC_MEM
    /\ UNCHANGED <<params, core, calls, summary, iter, i, Restart, Ralloc, vfv, gcrv,
                   stopOK, mem, steps, solv, oob, iterD, breakdown>>

\* h, the rows h[i], norms, r = b - A x and the initial absres, relres, checktol
GcrSetup ==
    /\ pc = "gcr_setup"
    /\ Ralloc' = Restart
    /\ mem' = Calloc(CallocRows(Calloc(mem, "h"), Restart), "norms")
    /\ \E rr \in 0..NormMax :
         /\ absres' = rr
         /\ absres0' = MaxSmallReal(rr)
         /\ checktol' = CheckTol(MaxSmallReal(rr), rr)
         /\ explicit' = TRUE
         /\ pc' = "gcr_outer"
    /\ UNCHANGED <<params, core, calls, summary, iter, i, Restart, vfv, rst, stopOK,
                   steps, solv, oob, ret, iterD, breakdown>>

\* while ( iter < MaxIt && sqrt(relres) > tol ) { i = -1; rst ++;
GcrOuter ==
    /\ pc = "gcr_outer"
    /\ IF iter < MaxIt /\ SqrtRelresGtTol(absres, absres0)
       THEN /\ i' = -1
            /\ rst' = rst + 1
            /\ pc' = "gcr_inner"
            /\ UNCHANGED stopOK
       ELSE /\ pc' = "gcr_finish"
            /\ stopOK' = ~SqrtRelresGtTol(absres, absres0)
            /\ UNCHANGED <<i, rst>>
    /\ UNCHANGED <<params, core, calls, summary, iter, Restart, Ralloc, vfv, absres,
                   absres0, checktol, explicit, mem, steps, solv, oob, ret,
                   iterD, breakdown>>

\* one pass of while ( i < Restart-1 && iter < MaxIt );
\* bd: gamma = <c,c> = 0, so alpha = 0 and alpha*alpha/gamma is NaN
GcrInner ==
    /\ pc = "gcr_inner"
    /\ IF ~(i < Restart - 1 /\ iter < MaxIt)
       THEN /\ pc' = "gcr_update"
            /\ UNCHANGED <<i, iter, steps, absres, checktol, explicit, breakdown>>
       ELSE /\ i' = i + 1
            /\ iter' = iter + 1
            /\ steps' = steps + 1
            /\ \E bd \in IF absres = NaN THEN {FALSE} ELSE BOOLEAN :
                 /\ breakdown' = (breakdown \/ bd)
                 /\ IF bd \/ absres = NaN
                    THEN /\ absres' = NaN
                         /\ checktol' = checktol
                         /\ explicit' = FALSE
                         /\ pc' = "gcr_inner"
                    ELSE \E dec \in 0..NormMax :
                      LET est == absres - dec IN
                      \E rr \in IF BelowCheckTol(est, checktol) THEN 0..NormMax ELSE {0} :
                        /\ IF BelowCheckTol(est, checktol)
                           THEN /\ absres' = rr
                                /\ checktol' = CheckTol(absres0, rr)
                                /\ explicit' = TRUE
                           ELSE /\ absres' = est
                                /\ checktol' = checktol
                                /\ explicit' = FALSE
                        /\ pc' = IF SqrtRelresLtTol(absres', absres0)
                                 THEN "gcr_update" ELSE "gcr_inner"
    /\ UNCHANGED <<params, core, calls, summary, Restart, Ralloc, vfv, absres0, rst,
                   stopOK, mem, solv, oob, ret, iterD>>

\* back substitution for tmpx and the update of x by dense_aAtxpby
GcrUpdate ==
    /\ pc = "gcr_update"
    /\ xupd < XupdMax
    /\ xupd' = xupd + 1
    /\ x' = IF breakdown THEN XNaN
            ELSE dense_aAtxpby(1, IF rst = 0 THEN 0 ELSE 1, x)
    /\ oob' = (oob \/ i + 1 > Ralloc \/ Ralloc = 0)
    /\ \E fault \in IF Ralloc = 0 THEN BOOLEAN ELSE {FALSE} :
         pc' = IF fault THEN "crashed" ELSE "gcr_outer"
    /\ UNCHANGED <<params, core, calls, summary, iter, i, Restart, Ralloc, vfv, gcrv,
                   stopOK, mem, steps, ret, iterD, breakdown>>

\* clean up memory and return
GcrFinish ==
    /\ pc = "gcr_finish"
    /\ mem' = Free(Free(Free(FreeRows(mem, Restart), "h"), "work"), "norms")
    /\ ret' = FinalReturn(iter, MaxIt)
    /\ pc' = AfterCore
    /\ UNCHANGED <<params, core, calls, summary, iter, i, Restart, Ralloc, vfv, gcrv,
                   stopOK, steps, solv, oob, iterD, breakdown>>

----------------------------------------------------------------------------
(* Matrix-free dispatcher: SolMatFree.c *)

\* ITS_CHECK ( MaxIt, tol ): TRUE when the parameters pass
ITS_CHECK(maxit, t) == maxit >= 0 /\ t > 0

\* faulty variant: the default case falls into the CG core
CoreOfKind_DefaultCG(kind) ==
    CASE kind = "CG" -> "fasp_solver_pcg"
      [] kind = "BiCGstab" -> "fasp_solver_pbcgs"
      [] kind = "VBiCGstab" -> "fasp_solver_pvbcgs"
      [] kind = "MinRes" -> "fasp_solver_pminres"
      [] kind = "GMRES" -> "fasp_solver_pgmres"
      [] kind = "VGMRES" -> "fasp_solver_pvgmres"
      [] kind = "VFGMRES" -> "fasp_solver_pvfgmres"
      [] kind = "GCG" -> "fasp_solver_pgcg"
      [] kind = "GCR" -> "none"
      [] OTHER -> "fasp_solver_pcg"

\* the core each case of the switch calls; "none" is the default case
CoreOfKind(kind) ==
    CASE kind = "CG" -> "fasp_solver_pcg"
      [] kind = "BiCGstab" -> "fasp_solver_pbcgs"
      [] kind = "VBiCGstab" -> "fasp_solver_pvbcgs"
      [] kind = "MinRes" -> "fasp_solver_pminres"
      [] kind = "GMRES" -> "fasp_solver_pgmres"
      [] kind = "VGMRES" -> "fasp_solver_pvgmres"
      [] kind = "VFGMRES" -> "fasp_solver_pvfgmres"
      [] kind = "GCG" -> "fasp_solver_pgcg"
      [] OTHER -> "none"

\* entry of fasp_solver_itsolver: timer and safe-guard checks on parameters
ItsEnter ==
    /\ pc = "its_enter"
    /\ iterD' = IF ITS_CHECK(MaxIt, tol) THEN ERROR_SOLVER_TYPE ELSE ERROR_INPUT_PAR
    /\ pc' = IF ITS_CHECK(MaxIt, tol) THEN "its_switch" ELSE "done"
    /\ UNCHANGED <<params, core, calls, summary, iter, i, Restart, Ralloc, vfv, gcrv,
                   stopOK, mem, steps, solv, oob, ret, breakdown>>

\* switch ( itsolver_type ): call the core of the kind, or fall to default
ItsSwitch ==
    /\ pc = "its_switch"
    /\ IF CoreOfKind(itsolver_type) = "none"
       THEN /\ pc' = "its_exit"
            /\ UNCHANGED <<core, calls>>
       ELSE /\ core' = CoreOfKind(itsolver_type)
            /\ calls' = Append(calls, CoreOfKind(itsolver_type))
            /\ pc' = IF CoreOfKind(itsolver_type) = "fasp_solver_pvfgmres"
                     THEN "vf_alloc" ELSE "other_core"
    /\ UNCHANGED <<params, summary, iter, i, Restart, Ralloc, vfv, gcrv,
                   stopOK, mem, steps, solv, oob, ret, iterD, breakdown>>

\* a Krylov core other than VFGMRES runs and returns
OtherCore ==
    /\ pc = "other_core"
    /\ \E v \in (0..MaxIt) \cup {ERROR_SOLVER_MAXIT}, upd \in 0..1 :
         /\ ret' = v
         /\ xupd' = xupd + upd
         /\ x' = IF upd = 1 THEN fasp_blas_array_axpy(1, x) ELSE x
    /\ pc' = "its_ret"
    /\ UNCHANGED <<params, core, calls, summary, iter, i, Restart, Ralloc, vfv, gcrv,
                   stopOK, mem, steps, oob, iterD, breakdown>>

\* iter = <core>(...): the core's value is assigned to the local iter
ItsCoreReturn ==
    /\ pc = "its_ret"
    /\ iterD' = ret
    /\ pc' = "its_exit"
    /\ UNCHANGED <<params, core, calls, summary, iter, i, Restart, Ralloc, vfv, gcrv,
                   stopOK, mem, steps, solv, oob, ret, breakdown>>

\* if ( (prtlvl >= PRINT_SOME) && (iter >= 0) ) print_cputime(...)
TimingLines(lvl, it) == IF lvl >= PRINT_SOME /\ it >= 0 THEN 1 ELSE 0

\* the tail of fasp_solver_itsolver: optional timing line, return iter
ItsExit ==
    /\ pc = "its_exit"
    /\ pc' = "done"
    /\ summary' = summary + TimingLines(print_level, iterD)
    /\ UNCHANGED <<params, core, calls, iter, i, Restart, Ralloc, vfv, gcrv,
                   stopOK, mem, steps, solv, oob, ret, iterD, breakdown>>

----------------------------------------------------------------------------

Next ==
    \/ VfAllocWork \/ VfAllocRetry \/ VfAllocExit \/ VfSetup
    \/ VfOuter \/ VfInner \/ VfUpdate \/ VfFinish
    \/ GcrAllocWork \/ GcrAllocRetry \/ GcrAllocExit \/ GcrSetup
    \/ GcrOuter \/ GcrInner \/ GcrUpdate \/ GcrFinish
    \/ ItsEnter \/ ItsSwitch \/ OtherCore \/ ItsCoreReturn \/ ItsExit

Spec == Init /\ [][Next]_vars

----------------------------------------------------------------------------
(* fasp_solver_matfree_init (SolMatFree.c) *)

\* the variables of the Krylov cores, at rest
CoresIdle ==
    /\ stop_type = "OTHER"
    /\ restart = 0 /\ tol = 1
    /\ b_norm = 0 /\ b_pnorm = 0 /\ has_pc = FALSE
    /\ iter = 0 /\ i = 0 /\ Restart = 0 /\ Ralloc = 0
    /\ r_norm = 0 /\ r_norm_old = 0 /\ cr = <<1, 1>> /\ den_norm = 0
    /\ absres = 0 /\ absres0 = 0 /\ checktol = 0 /\ rst = -1
    /\ explicit = TRUE
    /\ stopOK = FALSE
    /\ mem = <<>>
    /\ steps = 0 /\ xupd = 0 /\ oob = FALSE
    /\ x = XInit /\ breakdown = FALSE
    /\ relres = <<0, 1>> /\ ops = <<>>
coresv ==
    <<stop_type, restart, tol, b_norm, b_pnorm, has_pc, iter, i, Restart,
      Ralloc, r_norm, r_norm_old, cr, den_norm, absres, absres0, checktol,
      rst, explicit, stopOK, mem, steps, xupd, x, breakdown, relres, ops>>

\* the variables of the Krylov solvers and their dispatchers, at rest
KrylovIdle ==
    /\ CoresIdle
    /\ itsolver_type = "OTHER" /\ MaxIt = 0
    /\ core = "none" /\ calls = <<>>
    /\ ret = 0 /\ iterD = 0
    /\ print_level = PRINT_NONE /\ summary = 0
    /\ use_openmp = FALSE
krylovv ==
    <<coresv, itsolver_type, MaxIt, core, calls, iterD, print_level, summary,
      use_openmp>>

\* a caller enters fasp_solver_matfree_init with a handle of any content
MatfreeInit ==
    /\ entry = "fasp_solver_matfree_init"
    /\ pc = "mf_init"
    /\ matrix_format \in MatTags
    /\ A \in 0..PtrMax
    /\ mf \in [fct : MxvKernels \cup {"none"}, data : 0..PtrMax]
    /\ KrylovIdle
    /\ IoIdle
    /\ SymIdle

\* faulty variant: the BLC and CSRL kernels are exchanged
MxvOfTag_Swapped(t) ==
    CASE t = "MAT_CSR" -> "fasp_blas_mxv_csr"
      [] t = "MAT_BSR" -> "fasp_blas_mxv_bsr"
      [] t = "MAT_STR" -> "fasp_blas_mxv_str"
      [] t = "MAT_BLC" -> "fasp_blas_mxv_csrl"
      [] t = "MAT_CSRL" -> "fasp_blas_mxv_blc"
      [] OTHER -> "none"

\* switch ( matrix_format ): the kernel of the tag, "none" for default
MxvOfTag(t) ==
    CASE t = "MAT_CSR" -> "fasp_blas_mxv_csr"
      [] t = "MAT_BSR" -> "fasp_blas_mxv_bsr"
      [] t = "MAT_STR" -> "fasp_blas_mxv_str"
      [] t = "MAT_BLC" -> "fasp_blas_mxv_blc"
      [] t = "MAT_CSRL" -> "fasp_blas_mxv_csrl"
      [] OTHER -> "none"

\* the body of fasp_solver_matfree_init: bind fct and data, or exit
fasp_solver_matfree_init ==
    /\ pc = "mf_init"
    /\ IF MxvOfTag(matrix_format) = "none"
       THEN /\ pc' = "exited"
            /\ ret' = ERROR_DATA_STRUCTURE
            /\ UNCHANGED mf
       ELSE /\ mf' = [fct |-> MxvOfTag(matrix_format), data |-> A]
            /\ pc' = "done"
            /\ UNCHANGED ret
    /\ UNCHANGED <<entry, krylovv, oob, symv, matrix_format, A, iov>>

MatfreeNext == fasp_solver_matfree_init

MatfreeSpec == MatfreeInit /\ [][MatfreeNext]_vars

----------------------------------------------------------------------------
(* fasp_solver_dcsr_itsolver_omp (itsolver_csr_omp.c) *)

\* a caller enters fasp_solver_dcsr_itsolver_omp, in a build with or
\* without FASP_USE_OPENMP
OmpInit ==
    /\ entry = "fasp_solver_dcsr_itsolver_omp"
    /\ pc = "omp_enter"
    /\ use_openmp \in BOOLEAN
    /\ itsolver_type \in SolverKinds
    /\ MaxIt \in 0..MaxItMax
    /\ print_level \in {PRINT_NONE, PRINT_MIN, PRINT_SOME}
    /\ core = "none" /\ calls = <<>>
    /\ ret = 0 /\ iterD = 0 /\ summary = 0
    /\ CoresIdle
    /\ MatfreeIdle
    /\ IoIdle
    /\ SymIdle

\* the core each case of the switch calls; "none" is the default case
OmpCoreOfKind(kind) ==
    CASE kind = "CG" -> "fasp_solver_dcsr_pcg_omp"
      [] kind = "BiCGstab" -> "fasp_solver_dcsr_pbcgs"
      [] kind = "MinRes" -> "fasp_solver_dcsr_pminres"
      [] kind = "GMRES" -> "fasp_solver_dcsr_pgmres"
      [] kind = "VGMRES" -> "fasp_solver_dcsr_pvgmres"
      [] OTHER -> "none"

\* int iter = 0; then, under #if FASP_USE_OPENMP only, the switch: call
\* the core of the kind, or return ERROR_SOLVER_TYPE from the default case
OmpSwitch ==
    /\ pc = "omp_enter"
    /\ IF ~use_openmp
       THEN /\ iterD' = 0
            /\ pc' = "done"
            /\ UNCHANGED <<core, calls>>
       ELSE IF OmpCoreOfKind(itsolver_type) = "none"
       THEN /\ iterD' = ERROR_SOLVER_TYPE
            /\ pc' = "done"
            /\ UNCHANGED <<core, calls>>
       ELSE /\ iterD' = 0
            /\ core' = OmpCoreOfKind(itsolver_type)
            /\ calls' = Append(calls, OmpCoreOfKind(itsolver_type))
            /\ pc' = "omp_core"
    /\ UNCHANGED <<entry, coresv, itsolver_type, MaxIt, ret, print_level,
                   summary, use_openmp, oob, symv, mfv, iov>>

\* the Krylov core runs and returns
OmpCore ==
    /\ pc = "omp_core"
    /\ \E v \in (0..MaxIt) \cup {ERROR_SOLVER_MAXIT} : ret' = v
    /\ pc' = "omp_ret"
    /\ UNCHANGED <<entry, krylovv, oob, symv, mfv, iov>>

\* iter = <core>(...), the optional timing line, return iter
OmpExit ==
    /\ pc = "omp_ret"
    /\ iterD' = ret
    /\ summary' = summary + (IF print_level > 1 /\ ret >= 0 THEN 1 ELSE 0)
    /\ pc' = "done"
    /\ UNCHANGED <<entry, coresv, itsolver_type, MaxIt, core, calls, ret,
                   print_level, use_openmp, oob, symv, mfv, iov>>

OmpNext == OmpSwitch \/ OmpCore \/ OmpExit

OmpSpec == OmpInit /\ [][OmpNext]_vars

----------------------------------------------------------------------------
(* File routines: fasp_matrix_write, fasp_matrix_read, fasp_matrix_read_bin
   and fasp_vector_read with their format-specific helpers *)

\* the INT whose four bytes are the characters "0000"
ASCII0000 == 808464432

\* a / b of C for b > 0: the quotient is truncated toward zero
TruncDiv(a, b) == IF a >= 0 THEN a \div b ELSE -((-a) \div b)

\* endian_convert_int with ilength = 4 on a non-negative INT: the value
\* itself when EndianFlag is 1, the value with its bytes reversed otherwise
endian_convert_int(inum, EndianFlag) ==
    IF EndianFlag = 1 THEN inum
    ELSE LET b0 == inum % 256
             b1 == (inum \div 256) % 256
             b2 == (inum \div 65536) % 256
             b3 == (inum \div 16777216) % 256
         IN (IF b0 >= 128 THEN b0 - 256 ELSE b0) * 16777216
              + b1 * 65536 + b2 * 256 + b3

\* record layouts, as the sequence of items a helper writes or reads
CsrLayout == <<"m", "IA[m+1]", "JA[nnz]", "val[nnz]">>
CsrHeadedLayout == <<"m", "n", "nnz", "IA[m+1]", "JA[nnz]", "val[nnz]">>
CooLayout == <<"m", "n", "nnz", "(i,j,val)[nnz]">>
MtxLayout == <<"m", "n", "nnz", "(i+1,j+1,val)[nnz]">>
MtxSymLayout == <<"m", "n", "nnz", "(i+1,j+1,val)[lower]">>
BsrLayout ==
    <<"ROW", "COL", "NNZ", "nb", "storage_manner", "n", "IA[n]", "n",
      "JA[n]", "n", "val[n]">>
StrLayout ==
    <<"nx", "ny", "nz", "nc", "nband", "n", "diag[n]",
      "(offset,n,offdiag[n])[nband]">>

\* the layout each write helper emits; <<>> when no helper is called
WriteLayout(fn) ==
    CASE fn = "fasp_dcsr_write_s" -> CsrHeadedLayout
      [] fn = "fasp_dcsr_write_b" -> CooLayout
      [] fn \in {"fasp_dbsr_write_s", "fasp_dbsr_write_b"} -> BsrLayout
      [] fn \in {"fasp_dstr_write_s", "fasp_dstr_write_b"} -> StrLayout
      [] OTHER -> <<>>

\* the layout each read helper expects
ReadLayout(fn) ==
    CASE fn \in {"fasp_dcsr_read_s", "fasp_dcsr_read_b"} -> CsrLayout
      [] fn \in {"fasp_dcoo_read_s", "fasp_dcoo_read_b"} -> CooLayout
      [] fn \in {"fasp_dbsr_read_s", "fasp_dbsr_read_b"} -> BsrLayout
      [] fn \in {"fasp_dstr_read_s", "fasp_dstr_read_b"} -> StrLayout
      [] fn \in {"fasp_dmtx_read_s", "fasp_dmtx_read_b"} -> MtxLayout
      [] fn \in {"fasp_dmtxsym_read_s", "fasp_dmtxsym_read_b"} -> MtxSymLayout
      [] OTHER -> <<>>

\* the helpers that call fclose(fp) themselves
ClosesFile(fn) == fn \in {"fasp_dcsr_write_b", "fasp_ivec_read_b"}

\* fopen: a new handle with no fclose yet
Fopen(h) == Append(h, 0)

\* fclose on the handle opened last
Fclose(h) == [h EXCEPT ![Len(h)] = @ + 1]

\* fclose by the helper fn, if it has one
HelperClose(h, fn) == IF ClosesFile(fn) THEN Fclose(h) ELSE h

\* some handle has been passed to fclose twice
ClosedTwice(h) == \E k \in 1..Len(h) : h[k] >= 2

\* the k-th INT that fread delivers from the file f, and 0 past its end
FileInt(f, k) ==
    IF f.text THEN (IF k = 1 /\ Len(f.head) >= 1 THEN ASCII0000 ELSE 0)
    ELSE IF k <= Len(f.head) THEN f.head[k]
    ELSE IF k = Len(f.head) + 1 /\ f.body # <<>> THEN f.first
    ELSE 0

\* switch (matrixflag) of fasp_matrix_write, ASCII and binary
WriterS(matrixflag) ==
    CASE matrixflag = 1 -> "fasp_dcsr_write_s"
      [] matrixflag = 2 -> "fasp_dbsr_write_s"
      [] matrixflag = 3 -> "fasp_dstr_write_s"
      [] OTHER -> "none"
WriterB(matrixflag) ==
    CASE matrixflag = 1 -> "fasp_dcsr_write_b"
      [] matrixflag = 2 -> "fasp_dbsr_write_b"
      [] matrixflag = 3 -> "fasp_dstr_write_b"
      [] OTHER -> "none"

\* switch (flag) of fasp_matrix_read, ASCII and binary
ReaderS(f) ==
    CASE f = 0 -> "fasp_dcsr_read_s"
      [] f = 1 -> "fasp_dcoo_read_s"
      [] f = 2 -> "fasp_dbsr_read_s"
      [] f = 3 -> "fasp_dstr_read_s"
      [] f = 4 -> "fasp_dcoo_read_s"
      [] f = 5 -> "fasp_dmtx_read_s"
      [] f = 6 -> "fasp_dmtxsym_read_s"
      [] OTHER -> "none"
ReaderB(f) ==
    CASE f = 1 -> "fasp_dcsr_read_b"
      [] f = 2 -> "fasp_dbsr_read_b"
      [] f = 3 -> "fasp_dstr_read_b"
      [] f = 4 -> "fasp_dcoo_read_b"
      [] f = 5 -> "fasp_dmtx_read_b"
      [] f = 6 -> "fasp_dmtxsym_read_b"
      [] OTHER -> "none"

\* switch (flag) of fasp_matrix_read_bin
ReaderBin(f) ==
    CASE f = 1 -> "fasp_dcoo_read_b"
      [] f = 2 -> "fasp_dbsr_read_b"
      [] f = 3 -> "fasp_dstr_read_b"
      [] f = 4 -> "fasp_dcsr_read_b"
      [] f = 5 -> "fasp_dmtx_read_b"
      [] f = 6 -> "fasp_dmtxsym_read_b"
      [] OTHER -> "none"

\* switch (flag) of fasp_vector_read, ASCII and binary
VecReaderS(f) ==
    CASE f = 1 -> "fasp_dvec_read_s"
      [] f = 2 -> "fasp_ivec_read_s"
      [] f = 3 -> "fasp_dvecind_read_s"
      [] f = 4 -> "fasp_ivecind_read_s"
      [] OTHER -> "none"
VecReaderB(f) ==
    CASE f = 1 -> "fasp_dvec_read_b"
      [] f = 2 -> "fasp_ivec_read_b"
      [] f = 3 -> "fasp_dvecind_read_b"
      [] f = 4 -> "fasp_ivecind_read_b"
      [] OTHER -> "none"

\* the file fasp_matrix_write leaves behind for the flag fl and a matrix of
\* first dimension d: in ASCII the lines "0000" and matrixflag, sizeof(INT),
\* sizeof(REAL) printed as one number; in binary the INT putflag
WrittenFile(fl, d) ==
    LET matrixflag == fl % 100
        fileflag == fl \div 100
    IN IF fileflag = 0
       THEN [text |-> TRUE, head |-> <<0, matrixflag * 100 + 4 * 10 + 8>>,
             body |-> WriteLayout(WriterS(matrixflag)), first |-> d]
       ELSE [text |-> FALSE, head |-> <<fileflag * 100 + 4 * 10 + 8>>,
             body |-> WriteLayout(WriterB(matrixflag)), first |-> d]

\* the vector files a caller can pass to fasp_vector_read: the header of
\* the vector flag v in ASCII, or in binary with the endian flag e
VectorFiles ==
    {[text |-> TRUE, head |-> <<0, v * 100 + 48>>, body |-> <<"n", "val[n]">>,
      first |-> 1] : v \in 0..5}
    \cup {[text |-> FALSE,
           head |-> <<e, endian_convert_int(v * 100 + 48, e)>>,
           body |-> <<"n", "val[n]">>, first |-> 1] : v \in 0..5, e \in 1..2}

\* a caller writes a matrix and reads the file back, or reads a vector file
IoInit ==
    /\ entry \in {"fasp_matrix_write", "fasp_vector_read"}
    /\ pc = IF entry = "fasp_matrix_write" THEN "io_write" ELSE "io_vread"
    /\ flag \in IF entry = "fasp_matrix_write"
                THEN {fileflag * 100 + matrixflag :
                        fileflag \in 0..1, matrixflag \in 0..4}
                ELSE {0}
    /\ dim \in IF entry = "fasp_matrix_write" THEN 1..DimMax ELSE {0}
    /\ file \in IF entry = "fasp_matrix_write" THEN {NoFile} ELSE VectorFiles
    /\ handles = <<>>
    /\ reader = NoReader
    /\ KrylovIdle
    /\ MatfreeIdle
    /\ SymIdle

\* where a routine stands after its last fclose: a second fclose on the
\* same handle is undefined and may end the process
AfterClose(h, next) ==
    IF ClosedTwice(h) THEN {next, "crashed"} ELSE {next}

\* fasp_matrix_write: header, the helper of the matrix flag, fclose
fasp_matrix_write ==
    /\ pc = "io_write"
    /\ \E opened \in BOOLEAN :
         IF ~opened
         THEN /\ pc' = "exited"
              /\ ret' = ERROR_OPEN_FILE
              /\ UNCHANGED <<file, handles>>
         ELSE LET matrixflag == flag % 100
                  fileflag == flag \div 100
                  helper == IF fileflag = 0 THEN WriterS(matrixflag)
                            ELSE WriterB(matrixflag)
                  h == Fclose(HelperClose(Fopen(handles), helper))
              IN /\ file' = WrittenFile(flag, dim)
                 /\ handles' = h
                 /\ pc' \in AfterClose(h, "io_written")
                 /\ UNCHANGED ret
    /\ UNCHANGED <<entry, krylovv, oob, symv, mfv, flag, dim, reader>>

\* fasp_matrix_read: the first INT tells ASCII from binary; the format
\* information selects the reader
fasp_matrix_read ==
    /\ pc = "io_written"
    /\ entry' = "fasp_matrix_read"
    /\ \E opened \in BOOLEAN :
         IF ~opened
         THEN /\ pc' = "exited"
              /\ ret' = ERROR_OPEN_FILE
              /\ UNCHANGED <<handles, reader>>
         ELSE /\ UNCHANGED ret
              /\ IF FileInt(file, 1) = ASCII0000
                 THEN LET fl == TruncDiv(file.head[2], 100)
                          h == Fclose(Fopen(Fclose(Fopen(handles))))
                      IN /\ reader' = [fn |-> ReaderS(fl), ilength |-> 0,
                                       dlength |-> 0]
                         /\ handles' = h
                         /\ pc' \in AfterClose(h, "io_done")
                 ELSE LET EndianFlag == FileInt(file, 1)
                          index == endian_convert_int(FileInt(file, 2),
                                                      EndianFlag)
                          fl == TruncDiv(index, 100)
                          h == Fclose(Fopen(handles))
                      IN /\ reader' = [fn |-> ReaderB(fl),
                                       ilength |-> TruncDiv(index - fl * 100, 10),
                                       dlength |-> index % 10]
                         /\ handles' = h
                         /\ pc' \in AfterClose(h, "io_done")
    /\ UNCHANGED <<krylovv, oob, symv, mfv, flag, dim, file>>

\* fasp_matrix_read_bin: the first INT is the format information
fasp_matrix_read_bin ==
    /\ pc = "io_written"
    /\ entry' = "fasp_matrix_read_bin"
    /\ \E opened \in BOOLEAN :
         IF ~opened
         THEN /\ pc' = "exited"
              /\ ret' = ERROR_OPEN_FILE
              /\ UNCHANGED <<handles, reader>>
         ELSE LET index == endian_convert_int(FileInt(file, 1), 1)
                  fl == TruncDiv(index, 100)
                  h == Fclose(Fopen(handles))
              IN /\ reader' = [fn |-> ReaderBin(fl),
                               ilength |-> TruncDiv(index - fl * 100, 10),
                               dlength |-> index % 10]
                 /\ handles' = h
                 /\ pc' \in AfterClose(h, "io_done")
                 /\ UNCHANGED ret
    /\ UNCHANGED <<krylovv, oob, symv, mfv, flag, dim, file>>

\* fasp_vector_read: as fasp_matrix_read, with the vector readers
fasp_vector_read ==
    /\ pc = "io_vread"
    /\ \E opened \in BOOLEAN :
         IF ~opened
         THEN /\ pc' = "exited"
              /\ ret' = ERROR_OPEN_FILE
              /\ UNCHANGED <<handles, reader>>
         ELSE /\ UNCHANGED ret
              /\ IF FileInt(file, 1) = ASCII0000
                 THEN LET fl == TruncDiv(file.head[2], 100)
                          helper == VecReaderS(fl)
                          h == Fclose(HelperClose(Fopen(Fclose(Fopen(handles))),
                                                  helper))
                      IN /\ reader' = [fn |-> helper, ilength |-> 0,
                                       dlength |-> 0]
                         /\ handles' = h
                         /\ pc' \in AfterClose(h, "io_done")
                 ELSE LET EndianFlag == FileInt(file, 1)
                          index == endian_convert_int(FileInt(file, 2),
                                                      EndianFlag)
                          fl == TruncDiv(index, 100)
                          helper == VecReaderB(fl)
                          h == Fclose(HelperClose(Fopen(handles), helper))
                      IN /\ reader' = [fn |-> helper,
                                       ilength |-> TruncDiv(index - fl * 100, 10),
                                       dlength |-> index % 10]
                         /\ handles' = h
                         /\ pc' \in AfterClose(h, "io_done")
    /\ UNCHANGED <<entry, krylovv, oob, symv, mfv, flag, dim, file>>

IoNext ==
    \/ fasp_matrix_write \/ fasp_matrix_read \/ fasp_matrix_read_bin
    \/ fasp_vector_read

IoSpec == IoInit /\ [][IoNext]_vars

----------------------------------------------------------------------------
(* MatrixMarket symmetric readers: fasp_dmtxsym_read and the helpers
   fasp_dmtxsym_read_s and fasp_dmtxsym_read_b of fasp_matrix_read *)

SymReaders ==
    {"fasp_dmtxsym_read", "fasp_dmtxsym_read_s", "fasp_dmtxsym_read_b"}

\* the entry lines of a file, each by what the readers test: "diag" is a
\* line with i = j, "off" a line with i # j
SymEntries == UNION {[1..k -> {"diag", "off"}] : k \in 0..EntMax}

\* the size lines m n nnz for which 2*(nnz-m)+m is not negative
SymSizes ==
    {sz \in (1..DimMax) \X (1..DimMax) \X (0..NnzMax) :
        sz[1] = sz[2] /\ 2 * sz[3] >= sz[1]}

\* the files a reader can be given: fasp_dmtxsym_read gets a plain text
\* file, fasp_dmtxsym_read_s the rest of an ASCII file whose header
\* fasp_matrix_read has consumed, fasp_dmtxsym_read_b the rest of a binary
\* file with the endian flag e, every INT stored in the byte order of e
SymFiles(fn) ==
    IF fn = "fasp_dmtxsym_read"
    THEN {[text |-> TRUE, head |-> <<>>, size |-> sz, body |-> es] :
            sz \in SymSizes, es \in SymEntries}
    ELSE IF fn = "fasp_dmtxsym_read_s"
    THEN {[text |-> TRUE, head |-> <<0, 648>>, size |-> sz, body |-> es] :
            sz \in SymSizes, es \in SymEntries}
    ELSE {[text |-> FALSE, head |-> <<e, endian_convert_int(648, e)>>,
           size |-> <<endian_convert_int(sz[1], e),
                      endian_convert_int(sz[2], e),
                      endian_convert_int(sz[3], e)>>,
           body |-> es] :
            sz \in SymSizes, es \in SymEntries, e \in 1..2}

\* a caller enters one of the readers
SymInit ==
    /\ entry \in SymReaders
    /\ pc = "sym_enter"
    /\ file \in SymFiles(entry)
    /\ flag = 0 /\ dim = 0
    /\ handles = IF entry = "fasp_dmtxsym_read" THEN <<>> ELSE <<0>>
    /\ reader = IF entry = "fasp_dmtxsym_read" THEN NoReader
                ELSE [fn |-> entry, ilength |-> 4, dlength |-> 8]
    /\ SymIdle
    /\ KrylovIdle
    /\ MatfreeIdle

\* nnz = 2*(nnz-m) + m; // adjust for sym problem
SymNnz(m, nnz) == 2 * (nnz - m) + m

\* the indexes of rowind, colind and val one entry is stored to
SymStores(kind, k) == IF kind = "diag" THEN {k} ELSE {k, k + 1}

\* the size line, then fasp_dcoo_create(m,n,nnz) and innz = 0;
\* fasp_dmtxsym_read opens the file first
SymHeader ==
    /\ pc = "sym_enter"
    /\ \E opened \in BOOLEAN :
         IF entry = "fasp_dmtxsym_read" /\ ~opened
         THEN /\ pc' = "exited"
              /\ ret' = ERROR_OPEN_FILE
              /\ UNCHANGED <<handles, symv>>
         ELSE LET EndianFlag == IF file.text THEN 1 ELSE file.head[1]
                  m == endian_convert_int(file.size[1], EndianFlag)
                  nnz == endian_convert_int(file.size[3], EndianFlag)
              IN /\ handles' = IF entry = "fasp_dmtxsym_read"
                               THEN Fopen(handles) ELSE handles
                 /\ Atmp' = [nnz |-> SymNnz(m, nnz), stored |-> {}]
                 /\ innz' = 0
                 /\ pc' = "sym_loop"
                 /\ UNCHANGED <<ret, fpos>>
    /\ UNCHANGED <<entry, krylovv, oob, mfv, flag, dim, file, reader>>

\* one pass of while (innz < nnz): the text readers leave through
\* fasp_chkerr when fscanf returns EOF; the binary reader compares the
\* item count of fread with EOF, which it never equals, and at the end of
\* the file goes on with what index[] holds: the last entry read, or
\* nothing that was ever assigned.  A store past the arrays is undefined
SymPass ==
    /\ pc = "sym_loop"
    /\ innz < Atmp.nnz
    /\ IF fpos >= Len(file.body) /\ file.text
       THEN /\ pc' = "exited"
            /\ ret' = ERROR_WRONG_FILE
            /\ UNCHANGED <<symv, oob>>
       ELSE \E kind \in IF fpos < Len(file.body) THEN {file.body[fpos + 1]}
                        ELSE IF Len(file.body) > 0
                        THEN {file.body[Len(file.body)]}
                        ELSE {"diag", "off"} :
              LET idx == SymStores(kind, innz)
                  outside == \E k \in idx : k >= Atmp.nnz
              IN /\ Atmp' = [Atmp EXCEPT !.stored = @ \cup idx]
                 /\ innz' = innz + Cardinality(idx)
                 /\ fpos' = IF fpos < Len(file.body) THEN fpos + 1 ELSE fpos
                 /\ oob' = (oob \/ outside)
                 /\ pc' \in IF outside THEN {"sym_loop", "crashed"}
                            ELSE {"sym_loop"}
                 /\ UNCHANGED ret
    /\ UNCHANGED <<entry, krylovv, mfv, iov>>

\* the loop ends: fclose in fasp_dmtxsym_read, conversion to CSR, free
SymFinish ==
    /\ pc = "sym_loop"
    /\ ~(innz < Atmp.nnz)
    /\ handles' = IF entry = "fasp_dmtxsym_read" THEN Fclose(handles)
                  ELSE handles
    /\ pc' = "done"
    /\ UNCHANGED <<entry, krylovv, oob, mfv, flag, dim, file, reader, symv,
                   ret>>

SymNext == SymHeader \/ SymPass \/ SymFinish

SymSpec == SymInit /\ [][SymNext]_vars

\* the program is sequential: a step that is possible is eventually taken
FairSpec == Spec /\ WF_vars(Next)

----------------------------------------------------------------------------
(* Properties *)

KrylovCores == VfCores \cup {"fasp_solver_dcsr_pgcr"}

\* the VFGMRES or GCR core has returned to its caller with the value ret
CoreReturned == core \in KrylovCores /\ pc \in {"its_ret", "its_exit", "done"}

\* the dispatcher has returned the value iterD
ItsReturned == entry = "fasp_solver_itsolver" /\ pc = "done"

\* the restart-adjustment block is about to run
CycleStart == pc = "vf_outer" /\ iter < MaxIt /\ r_norm # 0

\* C1: a VFGMRES or GCR core called with max_iter >= 0 returns
\* ERROR_SOLVER_MAXIT exactly when the cap is reached without the stopping
\* test being satisfied, and returns the iteration count k whenever the
\* stopping test is satisfied at iteration k, 0 <= k <= max_iter.
C1_ReturnValue ==
    (CoreReturned /\ MaxIt >= 0) =>
        /\ (ret = ERROR_SOLVER_MAXIT) <=> (iter = MaxIt /\ ~stopOK)
        /\ stopOK => ret = iter

\* the core the solver kind names, GCR included
MatchingCore(kind) ==
    IF kind = "GCR" THEN "fasp_solver_pgcr" ELSE CoreOfKind(kind)

\* C2: for every recognized solver kind, a call of fasp_solver_itsolver that
\* passes the parameter check invokes the matching Krylov core exactly once
\* and returns that core's value unchanged.
C2_Routing ==
    (ItsReturned /\ itsolver_type # "OTHER" /\ ITS_CHECK(MaxIt, tol)) =>
        /\ calls = <<MatchingCore(itsolver_type)>>
        /\ iterD = ret

C4_ParamCheck ==
    ( /\ entry = "fasp_solver_itsolver"
      /\ \/ MaxIt < 0
         \/ tol <= 0
         \/ itsolver_type \in {"GMRES", "VGMRES", "VFGMRES"} /\ restart < 1 ) =>
        /\ calls = <<>>
        /\ pc = "done" => iterD = ERROR_INPUT_PAR

\* C5: in every state of a VFGMRES core or of the GCR core the iteration
\* counter stays in 0..max_iter, and so does the number of Arnoldi / GCR
\* steps; norms[iter] is inside the max_iter+1 entries.
C5_IterBound ==
    core \in KrylovCores =>
        /\ 0 <= iter
        /\ iter <= MaxIt
        /\ steps <= MaxIt

C5_Witness ==
    /\ core \in VfCores
    /\ pc = "vf_inner"
    /\ iter = MaxIt
    /\ MaxIt = MaxItMax
    /\ ULT(i, Restart)

\* C6: for restart >= 1 and max_iter >= 0 every invocation of a VFGMRES core
\* or of the GCR core eventually returns to its caller.
C6_Terminates ==
    (pc \in {"vf_alloc", "gcr_alloc"} /\ restart >= 1 /\ MaxIt >= 0)
        ~> CoreReturned

\* the convergence rate is in the reducing band 0.174 <= cr <= 0.99
CrInBand(c) == ~CrAboveMax(c) /\ ~CrBelowMin(c)

\* C7: at the start of a restart cycle that is not the first, with
\* 0.174 <= cr <= 0.99, the restart is reduced by 3 if the reduced value
\* stays >= 3 and is otherwise reset to restart_max (6 becomes 3).
C7_Reducing ==
    [][(CycleStart /\ core \in VfCores /\ iter > 0 /\ CrInBand(cr)) =>
          Restart' = (IF Restart - 3 >= 3 THEN Restart - 3 ELSE restart)]_vars

\* C8: the rate used at the start of a later cycle is r_norm / r_norm_old;
\* the first cycle and every cycle with cr > 0.99 start with
\* restart = restart_max, and a later cycle with cr < 0.174 keeps the
\* restart of the previous cycle.
C8_NonReducing ==
    /\ []((pc = "vf_outer" /\ xupd > 0) => cr = <<r_norm, r_norm_old>>)
    /\ [][(CycleStart /\ core \in VfCores) =>
            /\ (xupd = 0 \/ CrAboveMax(cr)) => Restart' = restart
            /\ (xupd > 0 /\ ~CrAboveMax(cr) /\ CrBelowMin(cr)) => Restart' = Restart]_vars

C8_Witness ==
    /\ core \in VfCores
    /\ pc = "vf_inner"
    /\ i = 0
    /\ xupd > 0
    /\ CrBelowMin(cr)
    /\ restart = 7
    /\ Restart = 4

\* C9: in the format-specific VFGMRES cores, whenever r_norm <= tol*den_norm
\* at the end of a restart cycle, the explicit residual is re-tested; the
\* outer loop is left only if the re-test passes, and otherwise the next
\* cycle starts from the recomputed residual with i = 0.
C9_ExplicitRetest ==
    [][( /\ pc = "vf_update"
         /\ core \in FormatCores
         /\ LeEpsilon(r_norm, den_norm)
         /\ pc' # "crashed" ) =>
          /\ pc' = "vf_finish" => stopOK'
          /\ pc' = "vf_outer" => (i' = 0 /\ ~stopOK' /\ cr' = <<r_norm', r_norm_old>>)]_vars

\* the buffers a core allocates once its workspace is set up
BuffersOf(c, R) ==
    IF c = "fasp_solver_dcsr_pgcr"
    THEN {"work", "h", "norms"} \cup {HRow(k) : k \in 0..(R - 1)}
    ELSE {"work", "p", "hh", "z", "norms"}

\* C10: when a VFGMRES core or the GCR core has returned to its caller,
\* every buffer it allocated has been freed exactly once.
C10_Released ==
    CoreReturned =>
        /\ DOMAIN mem = BuffersOf(core, Ralloc)
        /\ \A id \in DOMAIN mem : mem[id] = "freed"

\* a return through the zero-residual exit at the start of a cycle
C10_Witness ==
    /\ core = "fasp_solver_pvfgmres"
    /\ pc = "done"
    /\ MaxIt > 0
    /\ r_norm = 0
    /\ xupd = 0
    /\ ret = 0
    /\ \A id \in {"work", "p", "hh", "z", "norms"} : mem[id] = "freed"

\* the allocation of work has failed and the retry loop is being evaluated
AllocRetrying == pc \in {"vf_retry", "gcr_retry"}

\* C11: when the workspace cannot be allocated even after shrinking the
\* restart, the VFGMRES and GCR cores return ERROR_ALLOC_MEM to their
\* caller (the process is not terminated), so the dispatcher returns it.
C11_AllocErrorReturned ==
    [][(AllocRetrying /\ pc' \notin {"vf_retry", "vf_setup", "gcr_retry", "gcr_setup"}) =>
          /\ pc' = AfterCore
          /\ ret' = ERROR_ALLOC_MEM]_vars

\* C12: a failed workspace allocation is retried with the restart reduced by
\* 5 as long as the reduced restart is not below 5; no retry is attempted
\* with a restart below 5, and then the core stops with an allocation error.
C12_AllocFallback ==
    [][AllocRetrying =>
          IF Restart - 5 >= 5
          THEN /\ Restart' = Restart - 5
               /\ pc' \in {"vf_retry", "vf_setup", "gcr_retry", "gcr_setup"}
          ELSE /\ Restart' = Restart
               /\ ret' = ERROR_ALLOC_MEM
               /\ pc' \in {"exited", AfterCore}]_vars

\* x0 plus the sum of the corrections of n updates
SumOfCorrections(n) == [x0 |-> 1, dz |-> [k \in 1..n |-> 1]]

\* C13: the GCR solution update is additive in every restart cycle, the
\* first included: when fasp_solver_dcsr_pgcr has returned, x is the caller's
\* initial guess x0 plus the sum of the corrections of all cycles.
C13_GcrAdditive ==
    (core = "fasp_solver_dcsr_pgcr" /\ CoreReturned /\ ~breakdown) =>
        x = SumOfCorrections(xupd)

\* after the outcome n the core returns without a further mat-vec or
\* preconditioner call (at FINISHED, or at the next loop head)
Leaves(n) ==
    \/ n.pc \in {"vf_finish", "its_ret", "done"}
    \/ n.pc = "vf_outer" /\ (iter >= MaxIt \/ n.r_norm = 0)

\* the mat-vec and preconditioner calls among the operations o
IsCall(c) == c[1] \in {"mxv", "pc->fct"}
Calls(o) == SelectSeq(o, IsCall)

\* what a caller can tell about an outcome: the calls issued and, if the
\* core goes on, the values its next calls and its return value depend on;
\* a core that leaves returns FinalReturn(iter, MaxIt)
Observable(n) ==
    IF n.pc = "crashed" THEN [pc |-> "crashed"]
    ELSE IF Leaves(n) THEN [pc |-> "return", ops |-> Calls(n.ops)]
    ELSE [f \in DOMAIN n \ {"stopOK", "relres"} |->
             IF f = "ops" THEN Calls(n.ops) ELSE n[f]]

\* C14: the matrix-free VFGMRES core is the same algorithm as the
\* format-specific one: in every state of fasp_solver_pvfgmres and for the
\* same values delivered by the mat-vec and the preconditioner, the
\* format-specific code issues the same calls, returns the same value or
\* goes on from the same values (stop_type one of the three STOP_ constants).
C14_SameAlgorithm ==
    (core = "fasp_solver_pvfgmres" /\ stop_type # "OTHER") =>
        /\ pc = "vf_setup" =>
             \A r0 \in 0..NormMax :
                Observable(VfSetupOutcome(FALSE, r0)) = Observable(VfSetupOutcome(TRUE, r0))
        /\ pc = "vf_outer" =>
             \A re \in NormValues :
                Observable(VfOuterOutcome(FALSE, re)) = Observable(VfOuterOutcome(TRUE, re))
        /\ pc = "vf_update" =>
             \A fault \in BOOLEAN, re \in NormValues, rb, xn \in AuxNormValues :
                Observable(VfUpdateOutcome(FALSE, fault, re, rb, xn))
                    = Observable(VfUpdateOutcome(TRUE, fault, re, rb, xn))

\* a format-specific core evaluates the explicit re-test with one of the
\* three defined stop types in this step
RetestStep ==
    /\ pc = "vf_update"
    /\ pc' \in {"vf_finish", "vf_outer"}
    /\ core \in FormatCores
    /\ LeEpsilon(r_norm, den_norm)
    /\ stop_type # "OTHER"
    /\ ~breakdown

\* C15: in the format-specific VFGMRES cores the explicit re-test uses the
\* criterion stop_type selects: RelRes compares ||r||/||b|| (||r||/||r0||
\* when ||b|| = 0) with tol, RelPrecRes compares sqrt(<r, M^-1 r>) over the
\* M^-1-norm of b with tol, RelModRes compares ||r||/max(eps, ||x||) with tol.
C15_RetestCriterion ==
    /\ [][(pc = "vf_setup" /\ core \in FormatCores) =>
            den_norm' = (IF b_norm > 0 THEN b_norm ELSE r_norm')]_vars
    /\ [][RetestStep =>
            /\ stop_type = "STOP_REL_RES" =>
                 ((pc' = "vf_finish") <=> (r_norm' * TolDen <= tol * den_norm))
            /\ (stop_type = "STOP_REL_PRECRES" /\ b_norm > 0) =>
                 ((pc' = "vf_finish") <=> (relres'[1] * TolDen <= tol * b_pnorm))
            /\ stop_type = "STOP_MOD_REL_RES" =>
                 ((pc' = "vf_finish") <=>
                     (IF relres'[2] = 0 THEN r_norm' = 0
                      ELSE r_norm' * TolDen <= tol * relres'[2]))]_vars

\* C16: the convergence decision of the GCR core is the shared stopping test
\* its stop_type argument selects; for RelRes, the type whose quantities the
\* core has, it stops exactly when ||r||/||b|| <= tol, and when
\* ||r||/||r0|| <= tol only if ||b|| = 0 (absres and absres0 are squares).
C16_GcrStopType ==
    ( /\ core = "fasp_solver_dcsr_pgcr"
      /\ pc = "gcr_finish"
      /\ stop_type = "STOP_REL_RES"
      /\ ~breakdown ) =>
        (stopOK <=>
            IF b_norm > 0
            THEN absres * TolDen * TolDen <= tol * tol * b_norm * b_norm
            ELSE absres * TolDen * TolDen <= tol * tol * absres0)

\* a GCR step without breakdown
GcrStep ==
    /\ pc = "gcr_inner"
    /\ iter' = iter + 1
    /\ ~breakdown'

C18_BreakdownAborts ==
    /\ [][(~breakdown /\ breakdown') => (pc' = AfterCore /\ ret' < 0)]_vars
    /\ []((CoreReturned /\ breakdown) => ret < 0)

\* an Arnoldi step of a VFGMRES core that does not fault
ArnoldiStep ==
    /\ core \in VfCores
    /\ pc = "vf_inner"
    /\ iter' = iter + 1
    /\ pc' # "crashed"

C20_FlexiblePrec ==
    /\ [][ArnoldiStep =>
            /\ Len(ops') = 2
            /\ ops'[1] = <<IF has_pc THEN "pc->fct" ELSE "fasp_array_cp",
                           "p", i' - 1, "z", i' - 1>>
            /\ ops'[2] = <<"mxv", "z", i' - 1, "p", i'>>]_vars
    /\ [][( /\ core \in VfCores
            /\ pc = "vf_update"
            /\ pc' # "crashed"
            /\ i >= 1
            /\ ~breakdown ) =>
            /\ Len(ops') >= i + 1
            /\ ops'[i + 1] = <<"fasp_blas_array_axpy", "r", 0, "x", 0>>
            /\ \A j \in 1..i :
                 /\ ops'[j][1] \in {"fasp_array_cp", "fasp_blas_array_axpy"}
                 /\ ops'[j][2] = "z"
                 /\ ops'[j][3] = i - j
                 /\ ops'[j][4] = "r"
            /\ x' = [x0 |-> x.x0, dz |-> Append(x.dz, 1)]]_vars

\* an update after two inner iterations with a preconditioner has added
\* rs[1]*z[1] + rs[0]*z[0] to x
C20_Witness ==
    /\ core \in VfCores
    /\ has_pc
    /\ pc \in {"vf_outer", "vf_finish"}
    /\ Len(ops) >= 3
    /\ ops[1] = <<"fasp_array_cp", "z", 1, "r", 0>>
    /\ ops[2] = <<"fasp_blas_array_axpy", "z", 0, "r", 0>>
    /\ ops[3] = <<"fasp_blas_array_axpy", "r", 0, "x", 0>>
    /\ x = SumOfCorrections(1)

\* C21: fasp_solver_matfree_init binds mf->fct to the CSR, BSR, STR, BLC and
\* CSRL kernel for the tags MAT_CSR, MAT_BSR, MAT_STR, MAT_BLC and MAT_CSRL
\* and sets mf->data to the matrix pointer; for every other tag the call
\* ends with ERROR_DATA_STRUCTURE and the handle is not written.
C21_MatfreeBind ==
    [][pc = "mf_init" =>
         IF matrix_format = "MAT_CSR" THEN
             pc' = "done" /\ mf' = [fct |-> "fasp_blas_mxv_csr", data |-> A]
         ELSE IF matrix_format = "MAT_BSR" THEN
             pc' = "done" /\ mf' = [fct |-> "fasp_blas_mxv_bsr", data |-> A]
         ELSE IF matrix_format = "MAT_STR" THEN
             pc' = "done" /\ mf' = [fct |-> "fasp_blas_mxv_str", data |-> A]
         ELSE IF matrix_format = "MAT_BLC" THEN
             pc' = "done" /\ mf' = [fct |-> "fasp_blas_mxv_blc", data |-> A]
         ELSE IF matrix_format = "MAT_CSRL" THEN
             pc' = "done" /\ mf' = [fct |-> "fasp_blas_mxv_csrl", data |-> A]
         ELSE /\ pc' = "exited"
              /\ ret' = ERROR_DATA_STRUCTURE
              /\ mf' = mf]_vars

\* a handle that held another kernel and pointer is bound to the CSRL kernel
C21_Witness ==
    /\ entry = "fasp_solver_matfree_init"
    /\ pc = "done"
    /\ matrix_format = "MAT_CSRL"
    /\ A = PtrMax
    /\ mf = [fct |-> "fasp_blas_mxv_csrl", data |-> PtrMax]

\* C22: every call of fasp_solver_itsolver with print_level >= PRINT_MIN
\* has emitted exactly one summary line with the elapsed time when it
\* returns, for a non-negative and for a negative return value alike.
C22_SummaryLine ==
    (ItsReturned /\ print_level >= PRINT_MIN) => summary = 1

\* C24: in every inner iteration of a VFGMRES core called with restart >= 1
\* the cycle index i is at most the restart for which the workspace was
\* allocated, also when the allocation succeeded only after the restart
\* had been shrunk.
C24_BasisInBounds ==
    (core \in VfCores /\ pc \in {"vf_inner", "vf_update"} /\ restart >= 1) =>
        i <= Ralloc

\* C25: for every restart_max >= 1 the restart a VFGMRES core uses at the
\* start of each cycle satisfies 1 <= Restart <= restart_max; Restart - 3
\* on the unsigned Restart never wraps around.
C25_RestartRange ==
    [][( /\ core \in VfCores
         /\ pc = "vf_outer"
         /\ pc' = "vf_inner"
         /\ restart >= 1 ) =>
          /\ 1 <= Restart'
          /\ Restart' <= restart]_vars

\* C26: a format-specific VFGMRES core called with a stop_type outside the
\* three STOP_ constants never returns a non-negative iteration count; a
\* non-negative return value implies that a stopping test was evaluated and
\* passed, or that the initial residual was already below the threshold.
C26_UnknownStopType ==
    (core \in FormatCores /\ CoreReturned /\ ret >= 0) =>
        /\ stopOK
        /\ stop_type = "OTHER" => steps = 0

\* C27: the GCR core leaves its iteration as converged, by the inner break
\* on sqrt(relres) < tol or by the outer loop ending because
\* sqrt(relres) > tol is false, only with a relres that comes from an
\* explicitly recomputed <r,r>, never from the implicit estimate alone;
\* the estimate equal to tol^2 * absres0 is included.
C27_ConvergedExplicit ==
    /\ [][( /\ core = "fasp_solver_dcsr_pgcr"
            /\ pc = "gcr_inner"
            /\ iter' = iter + 1
            /\ pc' = "gcr_update"
            /\ SqrtRelresLtTol(absres', absres0) ) => explicit']_vars
    /\ []( ( /\ core = "fasp_solver_dcsr_pgcr"
             /\ pc = "gcr_finish"
             /\ iter < MaxIt
             /\ ~breakdown
             /\ stopOK ) => explicit )

\* C28: fasp_solver_dcsr_itsolver_omp returns a non-negative value only
\* after exactly one Krylov core has run, and then returns that core's
\* result; for an unrecognized solver type it returns ERROR_SOLVER_TYPE; it
\* never returns 0 without having invoked a core, in builds with and
\* without FASP_USE_OPENMP.
C28_OmpReturn ==
    (entry = "fasp_solver_dcsr_itsolver_omp" /\ pc = "done") =>
        /\ iterD >= 0 => (Len(calls) = 1 /\ iterD = ret)
        /\ OmpCoreOfKind(itsolver_type) = "none" => iterD = ERROR_SOLVER_TYPE

\* C23: no file handle is closed twice: on every path through
\* fasp_matrix_write and fasp_vector_read the file the routine opened is
\* closed exactly once, the closes inside the format-specific helpers
\* counted.
C23_ClosedOnce ==
    /\ \A k \in 1..Len(handles) : handles[k] <= 1
    /\ pc \in {"io_written", "io_done"} =>
         \A k \in 1..Len(handles) : handles[k] = 1

\* the read helpers of the matrix flag f: 1 = CSR, 2 = BSR, 3 = STR
ReadersOfFlag(f) ==
    CASE f = 1 -> {"fasp_dcsr_read_s", "fasp_dcsr_read_b"}
      [] f = 2 -> {"fasp_dbsr_read_s", "fasp_dbsr_read_b"}
      [] f = 3 -> {"fasp_dstr_read_s", "fasp_dstr_read_b"}
      [] OTHER -> {}

\* a file written with a matrix flag 1..3 has been read back, an ASCII
\* file by fasp_matrix_read, a binary file by either read routine
ReadBack ==
    /\ pc = "io_done"
    /\ entry \in {"fasp_matrix_read", "fasp_matrix_read_bin"}
    /\ flag % 100 \in 1..3
    /\ file.text => entry = "fasp_matrix_read"

\* C29: a file written by fasp_matrix_write with matrix flag f (1 = CSR,
\* 2 = BSR, 3 = STR), in ASCII or binary, is dispatched by fasp_matrix_read
\* (and, for binary files, by fasp_matrix_read_bin) to the reader of the
\* same format f, whose expected record layout is the one the writer
\* produced; the header the writer emits encodes the matrix flag.
C29_FormatAgreement ==
    ReadBack =>
        /\ reader.fn \in ReadersOfFlag(flag % 100)
        /\ ReadLayout(reader.fn) = file.body
        /\ TruncDiv(file.head[Len(file.head)], 100) = flag % 100

\* C30: the MatrixMarket symmetric readers store to rowind, colind and val
\* only at indexes below the length 2*(nnz-m)+m the arrays were created
\* with, the store at innz+1 of an off-diagonal entry included
C30_StoresInBounds ==
    entry \in SymReaders =>
        \A k \in Atmp.stored : 0 <= k /\ k < Atmp.nnz

====
